---- MODULE Spec2Model ----
(***************************************************************************)
(* Money-muling detection backend: the /analyze handler (backend/main.py)  *)
(* and the GraphEngine it drives (backend/graph_engine.py).                *)
(*                                                                         *)
(* A transaction row is [sender_id, receiver_id, timestamp]; its           *)
(* transaction_id is its row number and its amount is never read by the    *)
(* engine.  A timestamp cell is the text of the CSV cell, kept as          *)
(* [parses, instant]: instant is the second pd.to_datetime gives for it,   *)
(* parses = FALSE is a cell pd.to_datetime raises on.                      *)
(* A call that can raise returns [raised |-> BOOLEAN, ...].                *)
(***************************************************************************)
EXTENDS Integers, Sequences, FiniteSets, TLC

VARIABLES
    file,                 \* the uploaded table: [columns, rows]
    G,                    \* GraphEngine.G
    cycles,               \* what nx.simple_cycles(G, length_bound=5) yields in this process
    suspicious_accounts,  \* GraphEngine.suspicious_accounts
    fraud_rings,          \* GraphEngine.fraud_rings
    pc,                   \* position of the request / of run_analysis
    runs,                 \* completed run_analysis calls on this engine
    reports,              \* the values run_analysis returned, oldest first
    log,                  \* what the engine printed
    response              \* the HTTP response of /analyze

vars == <<file, G, cycles, suspicious_accounts, fraud_rings, pc, runs, reports, log, response>>

----------------------------------------------------------------------------
(* Bounds of the explored inputs *)

MaxRows == 2
MaxRuns == 2
MaxSpokes == 11
MaxParallel == 1

(* Program constants *)

VELOCITY_SECONDS == 3600
LENGTH_BOUND == 5
MIN_CYCLE == 3
MIN_TRANSACTIONS == 10
WINDOW_SECONDS == 259200
CYCLE_BUMP == 40
SMURFING_BUMP == 30
SHELL_BUMP == 20
VELOCITY_BUMP == 10
MAX_SCORE == 100
RISK_SCORE_TENTHS == 953

NoRing == ""

required_columns == {"transaction_id", "sender_id", "receiver_id", "amount", "timestamp"}

----------------------------------------------------------------------------
(* Sequence helpers *)

Range(s) == {s[i] : i \in DOMAIN s}

Contains(s, x) == \E i \in DOMAIN s : s[i] = x

IndexOf(s, x) == CHOOSE i \in DOMAIN s : s[i] = x

RECURSIVE SetToSeq(_)
SetToSeq(S) ==
    IF S = {} THEN <<>>
    ELSE LET x == CHOOSE y \in S : TRUE IN <<x>> \o SetToSeq(S \ {x})

\* list.sort() on instants: ascending order
RECURSIVE Insert(_, _)
Insert(x, s) ==
    IF s = <<>> THEN <<x>>
    ELSE IF x <= Head(s) THEN <<x>> \o s
    ELSE <<Head(s)>> \o Insert(x, Tail(s))

RECURSIVE Sort(_)
Sort(s) == IF s = <<>> THEN <<>> ELSE Insert(Head(s), Sort(Tail(s)))

----------------------------------------------------------------------------
(* The graph: nx.from_pandas_edgelist(df, ..., create_using=nx.DiGraph()) *)

RECURSIVE AddNodes(_, _)
AddNodes(nodes, rows) ==
    IF rows = <<>> THEN nodes
    ELSE LET r == Head(rows)
             n1 == IF Contains(nodes, r.sender_id) THEN nodes ELSE Append(nodes, r.sender_id)
             n2 == IF Contains(n1, r.receiver_id) THEN n1 ELSE Append(n1, r.receiver_id)
         IN AddNodes(n2, Tail(rows))

\* A DiGraph keeps one edge per ordered pair; add_edge on an existing pair
\* overwrites its attributes, so the last row of a pair decides its timestamp.
LastRowOf(rows, e) ==
    CHOOSE i \in DOMAIN rows :
        /\ <<rows[i].sender_id, rows[i].receiver_id>> = e
        /\ \A j \in DOMAIN rows :
               <<rows[j].sender_id, rows[j].receiver_id>> = e => j <= i

from_pandas_edgelist(rows) ==
    LET E == {<<rows[i].sender_id, rows[i].receiver_id>> : i \in DOMAIN rows}
    IN [nodes |-> AddNodes(<<>>, rows),
        edges |-> E,
        timestamp |-> [e \in E |-> rows[LastRowOf(rows, e)].timestamp]]

EmptyGraph == [nodes |-> <<>>, edges |-> {}, timestamp |-> <<>>]

out_edges(g, n) == {e \in g.edges : e[1] = n}
in_edges(g, n) == {e \in g.edges : e[2] = n}
out_degree(g, n) == Cardinality(out_edges(g, n))
in_degree(g, n) == Cardinality(in_edges(g, n))
successors(g, n) == {e[2] : e \in out_edges(g, n)}
predecessors(g, n) == {e[1] : e \in in_edges(g, n)}

\* pd.to_datetime on one cell
to_datetime(cell) ==
    IF cell.parses THEN [raised |-> FALSE, value |-> cell.instant]
    ELSE [raised |-> TRUE, value |-> 0]

----------------------------------------------------------------------------
(* GraphEngine._calculate_velocity_score *)

\* the first adjacent pair of the sorted instants closer than one hour
VelocityCloseMutant(ts) ==
    \E i \in 1..(Len(ts) - 1) : ts[i + 1] - ts[i] <= VELOCITY_SECONDS

VelocityClose(ts) ==
    \E i \in 1..(Len(ts) - 1) : ts[i + 1] - ts[i] < VELOCITY_SECONDS

_calculate_velocity_score(g, account_id) ==
    IF ~Contains(g.nodes, account_id) THEN [raised |-> FALSE, value |-> 0]
    ELSE LET outs == SetToSeq(out_edges(g, account_id))
             ins == SetToSeq(in_edges(g, account_id))
             cells == [i \in 1..Len(outs) |-> g.timestamp[outs[i]]]
                         \o [i \in 1..Len(ins) |-> g.timestamp[ins[i]]]
         IN IF \E i \in DOMAIN cells : to_datetime(cells[i]).raised
            THEN [raised |-> TRUE, value |-> 0]
            ELSE LET timestamps == Sort([i \in DOMAIN cells |-> to_datetime(cells[i]).value])
                 IN IF Len(timestamps) < 2 THEN [raised |-> FALSE, value |-> 0]
                    ELSE IF VelocityClose(timestamps)
                         THEN [raised |-> FALSE, value |-> VELOCITY_BUMP]
                         ELSE [raised |-> FALSE, value |-> 0]

----------------------------------------------------------------------------
(* GraphEngine._flag_account *)

AppendPatternMutant(existing, pattern, score_bump) ==
    [existing EXCEPT !.detected_patterns = Append(@, pattern),
                     !.raw_pattern_score = @ + score_bump]

AppendPattern(existing, pattern, score_bump) ==
    IF ~Contains(existing.detected_patterns, pattern)
    THEN [existing EXCEPT !.detected_patterns = Append(@, pattern),
                          !.raw_pattern_score = @ + score_bump]
    ELSE existing

SetRing(existing, ring_id) ==
    IF ring_id # NoRing /\ existing.ring_id = NoRing
    THEN [existing EXCEPT !.ring_id = ring_id]
    ELSE existing

_flag_account(g, accounts, account_id, pattern, score_bump, ring_id) ==
    LET velocity == _calculate_velocity_score(g, account_id)
    IN IF velocity.raised THEN [raised |-> TRUE, accounts |-> accounts]
       ELSE IF \E i \in DOMAIN accounts : accounts[i].account_id = account_id
            THEN LET i == CHOOSE j \in DOMAIN accounts : accounts[j].account_id = account_id
                 IN [raised |-> FALSE,
                     accounts |-> [accounts EXCEPT ![i] =
                                      SetRing(AppendPattern(@, pattern, score_bump), ring_id)]]
            ELSE [raised |-> FALSE,
                  accounts |-> Append(accounts,
                                  [account_id |-> account_id,
                                   detected_patterns |-> <<pattern>>,
                                   raw_pattern_score |-> score_bump,
                                   velocity_score |-> velocity.value,
                                   ring_id |-> ring_id])]

----------------------------------------------------------------------------
(* nx.simple_cycles(G, length_bound=5)                                     *)
(*                                                                         *)
(* The library yields every simple directed cycle of at most LENGTH_BOUND  *)
(* nodes exactly once, self-loops included, each as a node list that       *)
(* follows the edges.  Which member a cycle starts at and the order of the *)
(* cycles come from the iteration order of sets of node strings, which     *)
(* depends on the process's string hashing: any start and any order can    *)
(* be the one a process produces, and it is the same for the whole         *)
(* process.                                                                *)

\* the cycles, each once, written from its member inserted first
RECURSIVE CyclesFrom(_, _)
CyclesFrom(g, path) ==
    LET last == path[Len(path)]
        start == path[1]
        closed == IF <<last, start>> \in g.edges THEN {path} ELSE {}
        further == {w \in successors(g, last) :
                       /\ ~Contains(path, w)
                       /\ IndexOf(g.nodes, w) > IndexOf(g.nodes, start)}
    IN IF Len(path) < LENGTH_BOUND
       THEN closed \cup UNION {CyclesFrom(g, Append(path, w)) : w \in further}
       ELSE closed

SimpleCycles(g) == UNION {CyclesFrom(g, <<g.nodes[i]>>) : i \in DOMAIN g.nodes}

Rotations(c) ==
    {[i \in 1..Len(c) |-> c[((i + k - 1) % Len(c)) + 1]] : k \in 0..(Len(c) - 1)}

RECURSIVE Orderings(_)
Orderings(C) ==
    IF C = {} THEN {<<>>}
    ELSE UNION {{<<r>> \o rest : r \in Rotations(c), rest \in Orderings(C \ {c})} : c \in C}

simple_cycles(g) == Orderings(SimpleCycles(g))

----------------------------------------------------------------------------
(* GraphEngine.detect_bounded_cycles *)

RingId(counter) ==
    IF counter < 10 THEN "RING_0" \o ToString(counter) ELSE "RING_" \o ToString(counter)

CyclePattern(cycle) == "cycle_length_" \o ToString(Len(cycle))

IsRing(cycle) == MIN_CYCLE <= Len(cycle) /\ Len(cycle) <= LENGTH_BOUND

\* for node in cycle: self._flag_account(node, ..., 40, ring_id)
RECURSIVE FlagMembers(_, _, _, _, _)
FlagMembers(g, accounts, members, pattern, ring_id) ==
    IF members = <<>> THEN [raised |-> FALSE, accounts |-> accounts]
    ELSE LET r == _flag_account(g, accounts, Head(members), pattern, CYCLE_BUMP, ring_id)
         IN IF r.raised THEN r
            ELSE FlagMembers(g, r.accounts, Tail(members), pattern, ring_id)

Ring(ring_id, cycle) ==
    [ring_id |-> ring_id, member_accounts |-> cycle, pattern_type |-> "cycle",
     risk_score_tenths |-> RISK_SCORE_TENTHS]

\* the loop over cycles; an exception leaves it at once and is swallowed by
\* the except clause, the accounts flagged and the rings appended so far stay
RECURSIVE CycleLoop(_, _, _, _, _)
CycleLoop(g, accounts, rings, cs, cycle_id_counter) ==
    IF cs = <<>> THEN [accounts |-> accounts, rings |-> rings, raised |-> FALSE]
    ELSE LET cycle == Head(cs) IN
         IF IsRing(cycle)
         THEN LET ring_id == RingId(cycle_id_counter)
                  r == FlagMembers(g, accounts, cycle, CyclePattern(cycle), ring_id)
              IN IF r.raised
                 THEN [accounts |-> r.accounts, rings |-> rings, raised |-> TRUE]
                 ELSE CycleLoop(g, r.accounts, Append(rings, Ring(ring_id, cycle)),
                                Tail(cs), cycle_id_counter + 1)
         ELSE CycleLoop(g, accounts, rings, Tail(cs), cycle_id_counter)

detect_bounded_cycles(g, accounts, rings, cs) == CycleLoop(g, accounts, rings, cs, 1)

----------------------------------------------------------------------------
(* GraphEngine.detect_temporal_smurfing *)

WindowFound(timestamps) ==
    \E i \in 1..(Len(timestamps) - (MIN_TRANSACTIONS - 1)) :
        timestamps[i + (MIN_TRANSACTIONS - 1)] - timestamps[i] <= WINDOW_SECONDS

\* the instants of a list of edges, sorted; raises on a cell that does not parse
EdgeInstants(g, E) ==
    LET es == SetToSeq(E)
        cells == [i \in 1..Len(es) |-> g.timestamp[es[i]]]
    IN IF \E i \in DOMAIN cells : to_datetime(cells[i]).raised
       THEN [raised |-> TRUE, value |-> <<>>]
       ELSE [raised |-> FALSE,
             value |-> Sort([i \in DOMAIN cells |-> to_datetime(cells[i]).value])]

EnoughEdges(E) == Cardinality(E) >= MIN_TRANSACTIONS

FanOutNode(g, accounts, node) ==
    LET E == out_edges(g, node) IN
    IF ~EnoughEdges(E) THEN [raised |-> FALSE, accounts |-> accounts]
    ELSE LET ts == EdgeInstants(g, E) IN
         IF ts.raised THEN [raised |-> TRUE, accounts |-> accounts]
         ELSE IF WindowFound(ts.value) /\ \A e \in E : out_degree(g, e[2]) > 0
              THEN _flag_account(g, accounts, node, "fan_out_smurfing", SMURFING_BUMP, NoRing)
              ELSE [raised |-> FALSE, accounts |-> accounts]

FanInNode(g, accounts, node) ==
    LET E == in_edges(g, node) IN
    IF ~EnoughEdges(E) THEN [raised |-> FALSE, accounts |-> accounts]
    ELSE LET ts == EdgeInstants(g, E) IN
         IF ts.raised THEN [raised |-> TRUE, accounts |-> accounts]
         ELSE IF WindowFound(ts.value) /\ out_degree(g, node) = 1
              THEN _flag_account(g, accounts, node, "fan_in_smurfing", SMURFING_BUMP, NoRing)
              ELSE [raised |-> FALSE, accounts |-> accounts]

RECURSIVE FanOutLoop(_, _, _)
FanOutLoop(g, accounts, nodes) ==
    IF nodes = <<>> THEN [raised |-> FALSE, accounts |-> accounts]
    ELSE LET r == FanOutNode(g, accounts, Head(nodes))
         IN IF r.raised THEN r ELSE FanOutLoop(g, r.accounts, Tail(nodes))

RECURSIVE FanInLoop(_, _, _)
FanInLoop(g, accounts, nodes) ==
    IF nodes = <<>> THEN [raised |-> FALSE, accounts |-> accounts]
    ELSE LET r == FanInNode(g, accounts, Head(nodes))
         IN IF r.raised THEN r ELSE FanInLoop(g, r.accounts, Tail(nodes))

\* nothing catches here: an exception leaves the detector and run_analysis
detect_temporal_smurfing(g, accounts) ==
    LET r == FanOutLoop(g, accounts, g.nodes)
    IN IF r.raised THEN r ELSE FanInLoop(g, r.accounts, g.nodes)

----------------------------------------------------------------------------
(* GraphEngine.detect_shell_pass_throughs *)

ShellDegreeMutant(g, node) == in_degree(g, node) + out_degree(g, node) >= 2

ShellDegree(g, node) ==
    LET degree_sum == in_degree(g, node) + out_degree(g, node)
    IN degree_sum = 2 \/ degree_sum = 3

is_shell(g, node) ==
    /\ ShellDegree(g, node)
    /\ in_degree(g, node) >= 1 /\ out_degree(g, node) >= 1
    /\ \E pred \in predecessors(g, node), succ \in successors(g, node) :
           in_degree(g, pred) > 0 \/ out_degree(g, succ) > 0

RECURSIVE ShellLoop(_, _, _)
ShellLoop(g, accounts, nodes) ==
    IF nodes = <<>> THEN [raised |-> FALSE, accounts |-> accounts]
    ELSE LET r == IF is_shell(g, Head(nodes))
                  THEN _flag_account(g, accounts, Head(nodes), "shell_pass_through",
                                     SHELL_BUMP, NoRing)
                  ELSE [raised |-> FALSE, accounts |-> accounts]
         IN IF r.raised THEN r ELSE ShellLoop(g, r.accounts, Tail(nodes))

detect_shell_pass_throughs(g, accounts) == ShellLoop(g, accounts, g.nodes)

----------------------------------------------------------------------------
(* GraphEngine.run_analysis: final scoring and the report *)

\* raw_pattern_score and velocity_score are multiples of 10, so total_raw * 1.2
\* is the whole number (total_raw * 6) / 5
MultipliedMutant(account, total_raw) ==
    IF Len(account.detected_patterns) >= 1 THEN (total_raw * 6) \div 5 ELSE total_raw

Multiplied(account, total_raw) ==
    IF Len(account.detected_patterns) > 1 THEN (total_raw * 6) \div 5 ELSE total_raw

Min(a, b) == IF a <= b THEN a ELSE b

final_score(account) ==
    Min(Multiplied(account, account.raw_pattern_score + account.velocity_score), MAX_SCORE)

final_suspicious(accounts) ==
    [i \in DOMAIN accounts |->
        [account_id |-> accounts[i].account_id,
         suspicion_score |-> final_score(accounts[i]),
         detected_patterns |-> accounts[i].detected_patterns,
         ring_id |-> accounts[i].ring_id]]

\* the returned dict but for "fraud_rings", which is self.fraud_rings itself
\* (the list object, not a copy), and processing_time_seconds
Report(g, accounts, rings) ==
    [suspicious_accounts |-> final_suspicious(accounts),
     summary |-> [total_accounts_analyzed |-> Len(g.nodes),
                  suspicious_accounts_flagged |-> Len(accounts),
                  fraud_rings_detected |-> Len(rings)]]

----------------------------------------------------------------------------
(* The uploads explored *)

Accounts == {"A", "B", "C"}

At(t) == [parses |-> TRUE, instant |-> t]
Unparsable == [parses |-> FALSE, instant |-> 0]

TimeCells == {At(0), At(VELOCITY_SECONDS \div 2), At(VELOCITY_SECONDS), Unparsable}

Row(s, r, cell) == [sender_id |-> s, receiver_id |-> r, timestamp |-> cell]

Rows == {Row(s, r, cell) : s \in Accounts, r \in Accounts, cell \in TimeCells}

\* every table of at most MaxRows rows over three accounts
GenericTables == UNION {[1..n -> Rows] : n \in 0..MaxRows}

\* A -> B -> C -> A with any cells, alone or followed by one more row
RingTables ==
    {<<Row("A", "B", c1), Row("B", "C", c2), Row("C", "A", c3)>> \o extra :
        c1 \in TimeCells, c2 \in TimeCells, c3 \in TimeCells,
        extra \in {<<>>} \cup {<<r>> : r \in Rows}}

Spaced(pairs, step) ==
    [i \in DOMAIN pairs |-> Row(pairs[i][1], pairs[i][2], At((i - 1) * step))]

\* two 4-cycles through A, B and C; a 3-cycle and a 4-cycle through A, B and C
TwoFourCycles ==
    <<<<"A", "B">>, <<"B", "C">>, <<"C", "D">>, <<"D", "A">>, <<"C", "E">>, <<"E", "A">>>>
ThreeAndFourCycle ==
    <<<<"A", "B">>, <<"B", "C">>, <<"C", "A">>, <<"C", "D">>, <<"D", "A">>>>

MultiRingTables ==
    {Spaced(pairs, step) : pairs \in {TwoFourCycles, ThreeAndFourCycle},
                           step \in {0, VELOCITY_SECONDS \div 2, VELOCITY_SECONDS}}

Spoke(i) == "R" \o ToString(i)

\* steps at which ten consecutive transactions span less than, exactly and
\* more than the window
WindowSteps ==
    {0, WINDOW_SECONDS \div (MIN_TRANSACTIONS - 1),
        WINDOW_SECONDS \div (MIN_TRANSACTIONS - 1) + 1}

SpokeCell(i, step, bad) == IF bad /\ i = 2 THEN Unparsable ELSE At((i - 1) * step)

\* H pays k receivers one after the other, then the first receiver p more
\* times; every receiver but number sink forwards to Z; with funded, F pays H
FanOutTable(k, p, step, sink, bad, funded) ==
    LET forwarding == SelectSeq([i \in 1..k |-> i], LAMBDA i : i # sink)
    IN [i \in 1..k |-> Row("H", Spoke(i), SpokeCell(i, step, bad))]
       \o [j \in 1..p |-> Row("H", Spoke(1), At((k - 1 + j) * step))]
       \o [i \in 1..Len(forwarding) |-> Row(Spoke(forwarding[i]), "Z", At(0))]
       \o (IF funded THEN <<Row("F", "H", At(0))>> ELSE <<>>)

\* k senders pay X one after the other, then the first sender p more times;
\* X forwards to outs accounts; with onward, the first of them pays Z
FanInTable(k, p, step, outs, bad, onward) ==
    [i \in 1..k |-> Row(Spoke(i), "X", SpokeCell(i, step, bad))]
    \o [j \in 1..p |-> Row(Spoke(1), "X", At((k - 1 + j) * step))]
    \o [i \in 1..outs |-> Row("X", "Y" \o ToString(i), At(0))]
    \o (IF onward /\ outs > 0 THEN <<Row("Y1", "Z", At(0))>> ELSE <<>>)

SpokeCounts == (MIN_TRANSACTIONS - 1)..MaxSpokes

SmurfTables ==
    {FanOutTable(k, p, step, sink, bad, funded) :
        k \in SpokeCounts, p \in 0..MaxParallel, step \in WindowSteps,
        sink \in {0, 1, 5}, bad \in BOOLEAN, funded \in BOOLEAN}
    \cup
    {FanInTable(k, p, step, outs, bad, onward) :
        k \in SpokeCounts, p \in 0..MaxParallel, step \in WindowSteps,
        outs \in 0..2, bad \in BOOLEAN, onward \in BOOLEAN}

Tables == GenericTables \cup RingTables \cup MultiRingTables \cup SmurfTables

Uploads ==
    {[columns |-> required_columns, rows |-> t] : t \in Tables}
    \cup {[columns |-> c, rows |-> <<>>] : c \in (SUBSET required_columns) \ {required_columns}}

----------------------------------------------------------------------------
(* The state machine *)

NoResponse == [status_code |-> 0]

Init ==
    /\ file \in Uploads
    /\ G = EmptyGraph
    /\ cycles = <<>>
    /\ suspicious_accounts = <<>>
    /\ fraud_rings = <<>>
    /\ pc = "request"
    /\ runs = 0
    /\ reports = <<>>
    /\ log = <<>>
    /\ response = NoResponse

\* except Exception as e: raise HTTPException(status_code=500, detail=str(e))
ExceptClause(e) == [status_code |-> 500, detail |-> e]

MissingColumns(columns) ==
    [kind |-> "HTTPException", status_code |-> 400, missing |-> required_columns \ columns]

\* analyze_graph when the column check fails: the HTTPException raised inside
\* the try block is an Exception, so the except clause catches it
AnalyzeMissingColumns ==
    /\ pc = "request"
    /\ ~(required_columns \subseteq file.columns)
    /\ response' = ExceptClause(MissingColumns(file.columns))
    /\ pc' = "responded"
    /\ UNCHANGED <<file, G, cycles, suspicious_accounts, fraud_rings, runs, reports, log>>

\* analyze_graph up to engine = GraphEngine(df), and GraphEngine.__init__
AnalyzeConstruct ==
    /\ pc = "request"
    /\ required_columns \subseteq file.columns
    /\ G' = from_pandas_edgelist(file.rows)
    /\ cycles' \in simple_cycles(G')
    /\ suspicious_accounts' = <<>>
    /\ fraud_rings' = <<>>
    /\ pc' = "run_analysis"
    /\ UNCHANGED <<file, runs, reports, log, response>>

DetectBoundedCycles ==
    /\ pc = "run_analysis"
    /\ LET r == detect_bounded_cycles(G, suspicious_accounts, fraud_rings, cycles)
       IN /\ suspicious_accounts' = r.accounts
          /\ fraud_rings' = r.rings
          /\ log' = IF r.raised THEN Append(log, "Error in cycle detection") ELSE log
    /\ pc' = "cycles_done"
    /\ UNCHANGED <<file, G, cycles, runs, reports, response>>

DetectTemporalSmurfing ==
    /\ pc = "cycles_done"
    /\ LET r == detect_temporal_smurfing(G, suspicious_accounts)
       IN /\ suspicious_accounts' = r.accounts
          /\ pc' = IF r.raised THEN "raised_in_smurfing" ELSE "smurfing_done"
    /\ UNCHANGED <<file, G, cycles, fraud_rings, runs, reports, log, response>>

DetectShellPassThroughs ==
    /\ pc = "smurfing_done"
    /\ LET r == detect_shell_pass_throughs(G, suspicious_accounts)
       IN /\ suspicious_accounts' = r.accounts
          /\ pc' = IF r.raised THEN "raised_in_shell" ELSE "shell_done"
    /\ UNCHANGED <<file, G, cycles, fraud_rings, runs, reports, log, response>>

\* the final scoring of run_analysis and its return
FinalScoring ==
    /\ pc = "shell_done"
    /\ reports' = Append(reports, Report(G, suspicious_accounts, fraud_rings))
    /\ runs' = runs + 1
    /\ pc' = "returned"
    /\ UNCHANGED <<file, G, cycles, suspicious_accounts, fraud_rings, log, response>>

\* run_analysis called again on the same engine
RunAnalysisAgain ==
    /\ pc = "returned"
    /\ runs < MaxRuns
    /\ pc' = "run_analysis"
    /\ UNCHANGED <<file, G, cycles, suspicious_accounts, fraud_rings, runs, reports, log,
                   response>>

\* analyze_graph returns the result of its one run_analysis call
AnalyzeReturn ==
    /\ pc = "returned"
    /\ runs = 1
    /\ response' = [status_code |-> 200, body |-> reports[1], fraud_rings |-> fraud_rings]
    /\ pc' = "responded"
    /\ UNCHANGED <<file, G, cycles, suspicious_accounts, fraud_rings, runs, reports, log>>

\* an exception that left run_analysis reaches the except clause of analyze_graph
AnalyzeExcept ==
    /\ pc \in {"raised_in_smurfing", "raised_in_shell"}
    /\ response' = ExceptClause([kind |-> "ValueError", raised_in |-> pc])
    /\ pc' = "responded"
    /\ UNCHANGED <<file, G, cycles, suspicious_accounts, fraud_rings, runs, reports, log>>

Next ==
    \/ AnalyzeMissingColumns
    \/ AnalyzeConstruct
    \/ DetectBoundedCycles
    \/ DetectTemporalSmurfing
    \/ DetectShellPassThroughs
    \/ FinalScoring
    \/ RunAnalysisAgain
    \/ AnalyzeReturn
    \/ AnalyzeExcept

Spec == Init /\ [][Next]_vars

----------------------------------------------------------------------------
(* Vocabulary of the properties *)

CycleTags == {"cycle_length_3", "cycle_length_4", "cycle_length_5"}
SmurfingTags == {"fan_out_smurfing", "fan_in_smurfing"}

BumpOf(tag) ==
    IF tag \in CycleTags THEN CYCLE_BUMP
    ELSE IF tag \in SmurfingTags THEN SMURFING_BUMP
    ELSE SHELL_BUMP

RECURSIVE SumBumps(_)
SumBumps(tags) ==
    IF tags = {} THEN 0
    ELSE LET t == CHOOSE x \in tags : TRUE IN BumpOf(t) + SumBumps(tags \ {t})

AllParse(rows) == \A i \in DOMAIN rows : rows[i].timestamp.parses

Flagged(accounts, n, tag) ==
    \E i \in DOMAIN accounts :
        accounts[i].account_id = n /\ Contains(accounts[i].detected_patterns, tag)

\* the report run_analysis returned k-th, as its holder reads it now: its
\* "fraud_rings" is the engine's list
FullReport(k) ==
    [suspicious_accounts |-> reports[k].suspicious_accounts,
     fraud_rings |-> fraud_rings,
     summary |-> reports[k].summary]

S1Table ==
    <<Row("A", "B", At(0)), Row("B", "C", At(1800)), Row("C", "A", At(3600))>>

FirstReturn == pc = "returned" /\ runs = 1

S1Ring ==
    /\ Len(fraud_rings) = 1
    /\ fraud_rings[1].ring_id = "RING_01"
    /\ Range(fraud_rings[1].member_accounts) = {"A", "B", "C"}
    /\ Len(fraud_rings[1].member_accounts) = 3
    /\ fraud_rings[1].risk_score_tenths = 953

S1Account(n, patterns, velocity, score) ==
    /\ \E i \in DOMAIN suspicious_accounts :
          /\ suspicious_accounts[i].account_id = n
          /\ suspicious_accounts[i].velocity_score = velocity
    /\ \E i \in DOMAIN reports[1].suspicious_accounts :
          LET e == reports[1].suspicious_accounts[i]
          IN e.account_id = n /\ e.detected_patterns = patterns
             /\ e.suspicion_score = score /\ e.ring_id = "RING_01"

----------------------------------------------------------------------------
(* C1 *)

\* C1 as stated: on scenario S1 the first run reports one ring RING_01 over
\* A, B, C with risk score 95.3, and each of A, B, C carries cycle_length_3
\* only, velocity 10 and suspicion score 50.
C1_S1AsStated ==
    (file.rows = S1Table /\ FirstReturn) =>
        /\ S1Ring
        /\ \A n \in {"A", "B", "C"} : S1Account(n, <<"cycle_length_3">>, 10, 50)

\* C1 amended: on scenario S1 the first run of a fresh engine reports one
\* ring RING_01 over A, B, C with risk score 95.3; each of A, B, C carries
\* cycle_length_3 then shell_pass_through, so the 1.2 multiplier applies; the
\* velocity is 0 for A (its two edges are exactly 3600 s apart) and 10 for B
\* and C; the suspicion scores are 72 for A and 84 for B and C.
C1_S1Amended ==
    (file.rows = S1Table /\ FirstReturn) =>
        /\ S1Ring
        /\ Len(reports[1].suspicious_accounts) = 3
        /\ S1Account("A", <<"cycle_length_3", "shell_pass_through">>, 0, 72)
        /\ S1Account("B", <<"cycle_length_3", "shell_pass_through">>, 10, 84)
        /\ S1Account("C", <<"cycle_length_3", "shell_pass_through">>, 10, 84)

C1_Witness == file.rows = S1Table /\ FirstReturn /\ Len(fraud_rings) = 1

----------------------------------------------------------------------------
(* C2 *)

Incident(row, n) == row.sender_id = n \/ row.receiver_id = n

TwoCloseTransactions(rows, n) ==
    \E i \in DOMAIN rows, j \in DOMAIN rows :
        /\ i # j /\ Incident(rows[i], n) /\ Incident(rows[j], n)
        /\ rows[i].timestamp.instant - rows[j].timestamp.instant < VELOCITY_SECONDS
        /\ rows[j].timestamp.instant - rows[i].timestamp.instant < VELOCITY_SECONDS

\* C2: for every table whose timestamps parse and every account, the velocity
\* score is 10 exactly when two distinct transactions of the account (in
\* either direction, parallel ones counted apart) are less than 3600 s apart,
\* and 0 otherwise.
C2_VelocityPerTransaction ==
    AllParse(file.rows) =>
        \A i \in DOMAIN G.nodes :
            _calculate_velocity_score(G, G.nodes[i]).value =
                IF TwoCloseTransactions(file.rows, G.nodes[i]) THEN VELOCITY_BUMP ELSE 0

----------------------------------------------------------------------------
(* C3 *)

OutRows(rows, n) == SelectSeq(rows, LAMBDA r : r.sender_id = n)

FanOutPerTransaction(rows, n) ==
    LET out == OutRows(rows, n)
    IN /\ Len(out) >= MIN_TRANSACTIONS
       /\ WindowFound(Sort([i \in DOMAIN out |-> out[i].timestamp.instant]))
       /\ \A i \in DOMAIN out : OutRows(rows, out[i].receiver_id) # <<>>

\* C3: once the smurfing detector has run, a node is flagged fan_out_smurfing
\* exactly when it has at least 10 outgoing transactions (each transaction
\* counted, also several to one receiver), some 10 consecutive ones in
\* ascending time span at most 259200 s, and every receiver has an out-edge.
C3_FanOutPerTransaction ==
    (AllParse(file.rows) /\ pc = "smurfing_done") =>
        \A i \in DOMAIN G.nodes :
            Flagged(suspicious_accounts, G.nodes[i], "fan_out_smurfing")
                <=> FanOutPerTransaction(file.rows, G.nodes[i])

----------------------------------------------------------------------------
(* C4 *)

\* C4: a failure inside a detector never leaves run_analysis: no run is at a
\* point where an exception raised by a detector propagates to the caller.
C4_DetectorFailureAbsorbed ==
    pc \notin {"raised_in_smurfing", "raised_in_shell"}

----------------------------------------------------------------------------
(* C5 *)

\* C5: in every returned report, every non-null ring_id of an entry of
\* suspicious_accounts is the ring_id of an entry of fraud_rings.
C5_RingIdsResolve ==
    \A k \in DOMAIN reports :
        \A i \in DOMAIN FullReport(k).suspicious_accounts :
            LET e == FullReport(k).suspicious_accounts[i]
            IN e.ring_id # NoRing =>
                   \E j \in DOMAIN FullReport(k).fraud_rings :
                       FullReport(k).fraud_rings[j].ring_id = e.ring_id

----------------------------------------------------------------------------
(* C6 *)

ScoreLaw(e) ==
    LET B == SumBumps(Range(e.detected_patterns))
        v == _calculate_velocity_score(G, e.account_id).value
    IN /\ Len(e.detected_patterns) = 1 =>
              e.suspicion_score = Min(B + v, MAX_SCORE)
       /\ Len(e.detected_patterns) > 1 =>
              5 * e.suspicion_score = Min(6 * (B + v), 5 * MAX_SCORE)
       /\ 0 <= e.suspicion_score /\ e.suspicion_score <= MAX_SCORE

\* C6: every entry of every report has suspicion_score = min(B + v, 100) with
\* one pattern and min(1.2 * (B + v), 100) with more, B the sum of the bumps
\* of its distinct patterns and v its velocity; the score lies in [0, 100].
C6_ScoringLaw ==
    \A k \in DOMAIN reports :
        \A i \in DOMAIN reports[k].suspicious_accounts :
            ScoreLaw(reports[k].suspicious_accounts[i])

\* a report with a multi-pattern entry whose multiplied total is capped
C6_Witness ==
    \E k \in DOMAIN reports :
        \E i \in DOMAIN reports[k].suspicious_accounts :
            LET e == reports[k].suspicious_accounts[i]
            IN Len(e.detected_patterns) > 1 /\ e.suspicion_score = MAX_SCORE
               /\ 6 * SumBumps(Range(e.detected_patterns)) > 5 * MAX_SCORE

----------------------------------------------------------------------------
(* C7 *)

\* C7: two successive run_analysis calls on one engine return reports that
\* are equal but for processing_time_seconds.
C7_RerunSameReport ==
    Len(reports) >= 2 => FullReport(1) = FullReport(2)

----------------------------------------------------------------------------
(* C8 *)

\* C8: a table lacking a required column is answered with a 400-class error
\* that lists the missing columns, and no engine is constructed or run.
C8_MissingColumns400 ==
    (pc = "responded" /\ ~(required_columns \subseteq file.columns)) =>
        /\ response.status_code \in 400..499
        /\ G = EmptyGraph /\ runs = 0

----------------------------------------------------------------------------
(* C9 *)

NoDuplicates(s) == \A i \in DOMAIN s, j \in DOMAIN s : s[i] = s[j] => i = j

\* C9: at every point, every accumulator entry has a non-empty
\* detected_patterns list without duplicates, and its raw_pattern_score is the
\* sum of the bumps of exactly its distinct tags.
C9_AccumulatorEntries ==
    \A i \in DOMAIN suspicious_accounts :
        LET a == suspicious_accounts[i]
        IN /\ a.detected_patterns # <<>>
           /\ NoDuplicates(a.detected_patterns)
           /\ a.raw_pattern_score = SumBumps(Range(a.detected_patterns))

\* two different 4-cycles through one account, which carries +40 once
C9_Witness ==
    /\ pc = "cycles_done" /\ runs = 0
    /\ \E j \in DOMAIN fraud_rings, k \in DOMAIN fraud_rings, i \in DOMAIN suspicious_accounts :
          /\ j # k
          /\ Len(fraud_rings[j].member_accounts) = 4
          /\ Len(fraud_rings[k].member_accounts) = 4
          /\ Contains(fraud_rings[j].member_accounts, suspicious_accounts[i].account_id)
          /\ Contains(fraud_rings[k].member_accounts, suspicious_accounts[i].account_id)
          /\ suspicious_accounts[i].detected_patterns = <<"cycle_length_4">>
          /\ suspicious_accounts[i].raw_pattern_score = CYCLE_BUMP

----------------------------------------------------------------------------
(* C10 *)

TagsOf(e) == Range(e.detected_patterns)

\* C10: in every report no account carries two of fan_out_smurfing,
\* fan_in_smurfing and shell_pass_through.
C10_TagsExclusive ==
    \A k \in DOMAIN reports :
        \A i \in DOMAIN reports[k].suspicious_accounts :
            Cardinality(TagsOf(reports[k].suspicious_accounts[i])
                            \cap (SmurfingTags \cup {"shell_pass_through"})) <= 1

\* a reported fan-in collector that forwards along a chain: it has a
\* predecessor and a successor with an out-edge, and only its degree keeps
\* it from being a shell
C10_Witness ==
    \E k \in DOMAIN reports :
        \E i \in DOMAIN reports[k].suspicious_accounts :
            LET e == reports[k].suspicious_accounts[i]
            IN /\ "fan_in_smurfing" \in TagsOf(e)
               /\ \E s \in successors(G, e.account_id) : out_degree(G, s) > 0

====
